---- MODULE Spec2Model ----
(***************************************************************************)
(* Model of lib/plugin/subtitles.js: the subtitles plugin of CodeceptJS.   *)
(*                                                                         *)
(* Strings are sequences of one-character strings, so that formatting,     *)
(* padding, replacing and parsing are computed character by character.     *)
(* A subtitle document is the sequence of its lines, each line standing    *)
(* for the characters up to and including one "\n".                        *)
(* Date.now() is the variable now; it advances between events and never   *)
(* goes back.  Titles hold no line break.                                  *)
(***************************************************************************)
EXTENDS Integers, Sequences, FiniteSets, TLC

\* ------------------------------------------------------------------ bounds
MaxFmtHours == 25    \* hour range of the formatter inputs (SpecFmt)
MaxUuid     == 2     \* step-started events in one run
MaxTicks    == 1     \* clock advances in one run
MaxWrites   == 1     \* test-after events that reach writeFile in one run
MaxNameLength == 100 \* longest step name of the title inputs (SpecTitle)

\* --------------------------------------------------------- string helpers
Digits == <<"0", "1", "2", "3", "4", "5", "6", "7", "8", "9">>

RECURSIVE NatToString(_)
NatToString(n) ==
    IF n < 10 THEN <<Digits[n + 1]>>
    ELSE NatToString(n \div 10) \o <<Digits[(n % 10) + 1]>>

\* Number.prototype.toString() for an integer
toString(x) ==
    IF x < 0 THEN <<"-">> \o NatToString(0 - x)
    ELSE NatToString(x)

RECURSIVE Repeat(_, _)
Repeat(c, n) == IF n <= 0 THEN <<>> ELSE <<c>> \o Repeat(c, n - 1)

\* String.prototype.padStart(targetLength, '0')
padStart(s, targetLength) == Repeat("0", targetLength - Len(s)) \o s

\* index of the first occurrence of the character c in s, 0 when absent
IndexOf(s, c) ==
    IF \E i \in 1..Len(s) : s[i] = c
    THEN CHOOSE i \in 1..Len(s) : s[i] = c /\ \A j \in 1..(i - 1) : s[j] # c
    ELSE 0

\* index of the last occurrence of the character c in s, 0 when absent
LastIndexOf(s, c) ==
    IF \E i \in 1..Len(s) : s[i] = c
    THEN CHOOSE i \in 1..Len(s) : s[i] = c /\ \A j \in (i + 1)..Len(s) : s[j] # c
    ELSE 0

\* String.prototype.replace(c, r) with string arguments: the FIRST
\* occurrence of c only
replace(s, c, r) ==
    LET i == IndexOf(s, c)
    IN  IF i = 0 THEN s
        ELSE SubSeq(s, 1, i - 1) \o r \o SubSeq(s, i + 1, Len(s))

\* String.prototype.substring(0, n)
substring(s, n) == SubSeq(s, 1, IF n < Len(s) THEN n ELSE Len(s))

\* ------------------------------------------------------ formatTimestamp
MsPerHour   == 3600000
MsPerMinute == 60000
MsPerSecond == 1000
HoursPerDay == 24

\* new Date(0, 0, 0, 0, 0, 0, ms).getHours(): the hour of the day of the
\* local calendar instant "midnight + ms" (a zone without a transition in
\* the window): it wraps at 24.
getHours(timestampInMs) == (timestampInMs \div MsPerHour) % HoursPerDay

getMinutes(timestampInMs) == (timestampInMs \div MsPerMinute) % 60

getSeconds(timestampInMs) == (timestampInMs \div MsPerSecond) % 60

\* A plausible slip: the millisecond field taken modulo 1000
formatTimestampMsMod(timestampInMs) ==
    LET hours   == getHours(timestampInMs)
        minutes == getMinutes(timestampInMs)
        seconds == getSeconds(timestampInMs)
        ms      == timestampInMs % MsPerSecond
    IN  padStart(toString(hours), 2) \o <<":">> \o
        padStart(toString(minutes), 2) \o <<":">> \o
        padStart(toString(seconds), 2) \o <<"#">> \o
        padStart(toString(ms), 3)

formatTimestamp(timestampInMs) ==
    LET hours   == getHours(timestampInMs)
        minutes == getMinutes(timestampInMs)
        seconds == getSeconds(timestampInMs)
        ms      == timestampInMs -
                   (hours * MsPerHour + minutes * MsPerMinute + seconds * MsPerSecond)
    IN  padStart(toString(hours), 2) \o <<":">> \o
        padStart(toString(minutes), 2) \o <<":">> \o
        padStart(toString(seconds), 2) \o <<"#">> \o
        padStart(toString(ms), 3)

\* formatTimestamp(NaN): the Date is invalid, every getter returns NaN,
\* NaN.toString() is "NaN" and padStart leaves its three characters alone.
formatTimestampNaN ==
    <<"N", "a", "N", ":", "N", "a", "N", ":", "N", "a", "N", "#", "N", "a", "N">>

\* ------------------------------------------------ the paired parser (§8)
\* the position of the first separator character of s at or after i, 0
\* when there is none
RECURSIVE FirstSeparator(_, _, _)
FirstSeparator(s, seps, i) ==
    IF i > Len(s) THEN 0
    ELSE IF s[i] \in seps THEN i
    ELSE FirstSeparator(s, seps, i + 1)

\* the fields of s between separator characters
RECURSIVE SplitFields(_, _)
SplitFields(s, seps) ==
    LET i == FirstSeparator(s, seps, 1)
    IN  IF i = 0 THEN <<s>>
        ELSE <<SubSeq(s, 1, i - 1)>> \o SplitFields(SubSeq(s, i + 1, Len(s)), seps)

DigitValue(c) == CHOOSE d \in 0..9 : Digits[d + 1] = c

\* the number written by the characters from..to of s
RECURSIVE ParseDigits(_, _, _)
ParseDigits(s, from, to) ==
    IF to < from THEN 0
    ELSE ParseDigits(s, from, to - 1) * 10 + DigitValue(s[to])

ParseNat(s) == ParseDigits(s, 1, Len(s))

ParseInt(s) ==
    IF Len(s) > 0 /\ s[1] = "-" THEN 0 - ParseDigits(s, 2, Len(s)) ELSE ParseNat(s)

\* hours:minutes:seconds#milliseconds back to milliseconds
parseTimestamp(s) ==
    LET f == SplitFields(s, {":", "#"})
    IN  ParseInt(f[1]) * MsPerHour + ParseInt(f[2]) * MsPerMinute +
        ParseInt(f[3]) * MsPerSecond + ParseInt(f[4])

\* ------------------------------------------------------------ path.parse
\* POSIX path.parse: trailing slashes are ignored, dir is what precedes the
\* last slash ("/" when that slash is the root, "" when there is none),
\* name is the base without its extension.
RECURSIVE StripTrailingSlashes(_)
StripTrailingSlashes(p) ==
    IF Len(p) > 1 /\ p[Len(p)] = "/"
    THEN StripTrailingSlashes(SubSeq(p, 1, Len(p) - 1))
    ELSE p

pathParseDir(p) ==
    LET q == StripTrailingSlashes(p)
        i == LastIndexOf(q, "/")
    IN  IF i = 0 THEN <<>>
        ELSE IF i = 1 THEN <<"/">>
        ELSE SubSeq(q, 1, i - 1)

pathParseBase(p) ==
    LET q == StripTrailingSlashes(p)
        i == LastIndexOf(q, "/")
    IN  IF q = <<"/">> THEN <<>> ELSE SubSeq(q, i + 1, Len(q))

pathParseName(p) ==
    LET base == pathParseBase(p)
        d    == LastIndexOf(base, ".")
    IN  IF d <= 1 \/ base = <<".", ".">> THEN base
        ELSE SubSeq(base, 1, d - 1)

\* --------------------------------------------------------------- payloads
\* Step payload objects of the event source.  0 is the missing payload
\* (undefined); a step object has an actor, a name and optional args.
StepObjs == {1, 2}
NoStep   == 0

NoId      == 0          \* step.id absent
ForeignId == 0 - 1      \* an id this plugin never generated

MaxTitleLength == 100

\* the descriptor of a step object: actor, name and args, where args is
\* <<FALSE, <<>>>> when absent and <<TRUE, list>> otherwise
StepActor(p) == <<"I">>

StepName(p) == <<"s", "e", "e">>

StepArgs(p) == <<TRUE, << <<"a">>, <<"b", "#">> >> >>

\* the id a step object carries before this plugin has seen it
InitialStepId(p) == IF p = 2 THEN ForeignId ELSE NoId

\* Array.prototype.join(',')
RECURSIVE join(_, _)
join(list, sep) ==
    IF Len(list) = 0 THEN <<>>
    ELSE IF Len(list) = 1 THEN list[1]
    ELSE list[1] \o sep \o join(Tail(list), sep)

\* A plausible slip: the limit is tested with >=
titleOfTruncatingAtLimit(actor, name, args) ==
    LET title == actor \o <<".">> \o name \o <<"(">> \o
                 (IF args[1] THEN join(args[2], <<",">>) ELSE <<>>) \o <<")">>
    IN  IF Len(title) >= MaxTitleLength
        THEN substring(title, MaxTitleLength) \o <<".", ".", ".">>
        ELSE title

\* the title the step-started handler computes
titleOf(actor, name, args) ==
    LET title == actor \o <<".">> \o name \o <<"(">> \o
                 (IF args[1] THEN join(args[2], <<",">>) ELSE <<>>) \o <<")">>
    IN  IF Len(title) > MaxTitleLength
        THEN substring(title, MaxTitleLength) \o <<".", ".", ".">>
        ELSE title

stepTitle(p) == titleOf(StepActor(p), StepName(p), StepArgs(p))

\* Test payload objects.  0 is the missing payload; 1 has no artifacts;
\* 2 has artifacts without a video; the others carry a video path.
NoTest     == 0
Videos     == << <<"/", "a", "/", "b", "/", "t", ".", "m", "p", "4">> >>
TestObjs   == 1..(2 + Len(Videos))
HasArtifacts(t) == t \in TestObjs /\ t >= 2
HasVideo(t)     == t \in TestObjs /\ t >= 3
Video(t)        == Videos[t - 2]

\* config.format as supplied at plugin construction; <<>> is "unset"
Formats ==
    { <<>>,
      <<"W", "E", "B", "V", "T", "T">>,
      <<"w", "e", "b", "v", "t", "t">> }

WEBVTT == <<"W", "E", "B", "V", "T", "T">>
vtt    == <<"v", "t", "t">>
srt    == <<"s", "r", "t">>

\* ------------------------------------------------------- the step mapping
\* steps is a JavaScript object keyed by uuid strings: its own keys are
\* kept in insertion order, which is the order of Object.values().  It is
\* the sequence of its records, each carrying its key in the field id.
\* end = <<>> is "no end property": a formatted end is never empty, so
\* the truthiness test of the code is Len(end) > 0.
\* Keys are the uuid strings this plugin generates, and the ids a payload
\* may carry are such strings or strings that are no member name of
\* Object.prototype, so a lookup finds own keys only.
HasKey(map, id) == \E i \in 1..Len(map) : map[i].id = id

KeyIndex(map, id) == CHOOSE i \in 1..Len(map) : map[i].id = id

\* steps[id] = record : replaces in place, or appends a new key
ObjectSet(map, id, record) ==
    IF HasKey(map, id)
    THEN [map EXCEPT ![KeyIndex(map, id)] = record]
    ELSE Append(map, record)

\* A plausible slip: the operands of the subtraction swapped
formatElapsedSwapped(instant, base) ==
    IF base = <<>> THEN formatTimestampNaN
    ELSE formatTimestamp(base[1] - instant)

\* Date.now() - testStartedAt, formatted; testStartedAt is <<>> while
\* undefined and the difference is then NaN
formatElapsed(instant, base) ==
    IF base = <<>> THEN formatTimestampNaN
    ELSE formatTimestamp(instant - base[1])

\* ---------------------------------------------------------------- render
\* Array.prototype.sort with (a, b) => a.startedAt - b.startedAt: stable
RECURSIVE InsertByStartedAt(_, _)
InsertByStartedAt(sorted, x) ==
    IF Len(sorted) = 0 THEN <<x>>
    ELSE IF sorted[Len(sorted)].startedAt - x.startedAt <= 0
         THEN Append(sorted, x)
         ELSE Append(InsertByStartedAt(SubSeq(sorted, 1, Len(sorted) - 1), x),
                     sorted[Len(sorted)])

RECURSIVE sortByStartedAt0(_, _)
sortByStartedAt0(sorted, rest) ==
    IF Len(rest) = 0 THEN sorted
    ELSE sortByStartedAt0(InsertByStartedAt(sorted, Head(rest)), Tail(rest))

\* A plausible slip: the comparator's operands swapped
RECURSIVE InsertByStartedAtDesc(_, _)
InsertByStartedAtDesc(sorted, x) ==
    IF Len(sorted) = 0 THEN <<x>>
    ELSE IF x.startedAt - sorted[Len(sorted)].startedAt <= 0
         THEN Append(sorted, x)
         ELSE Append(InsertByStartedAtDesc(SubSeq(sorted, 1, Len(sorted) - 1), x),
                     sorted[Len(sorted)])

RECURSIVE sortByStartedAtDesc0(_, _)
sortByStartedAtDesc0(sorted, rest) ==
    IF Len(rest) = 0 THEN sorted
    ELSE sortByStartedAtDesc0(InsertByStartedAtDesc(sorted, Head(rest)), Tail(rest))

sortByStartedAtSwapped(values) == sortByStartedAtDesc0(<<>>, values)

\* A plausible slip: a sort that puts an entry before its equals
RECURSIVE InsertBeforeEquals(_, _)
InsertBeforeEquals(sorted, x) ==
    IF Len(sorted) = 0 THEN <<x>>
    ELSE IF sorted[Len(sorted)].startedAt - x.startedAt < 0
         THEN Append(sorted, x)
         ELSE Append(InsertBeforeEquals(SubSeq(sorted, 1, Len(sorted) - 1), x),
                     sorted[Len(sorted)])

RECURSIVE sortBeforeEquals0(_, _)
sortBeforeEquals0(sorted, rest) ==
    IF Len(rest) = 0 THEN sorted
    ELSE sortBeforeEquals0(InsertBeforeEquals(sorted, Head(rest)), Tail(rest))

sortByStartedAtUnstable(values) == sortBeforeEquals0(<<>>, values)

sortByStartedAt(values) == sortByStartedAt0(<<>>, values)

\* A plausible slip: the format compared without regard to case
subtitleFormatAnyCase(format) ==
    IF format \in {WEBVTT, <<"w", "e", "b", "v", "t", "t">>} THEN vtt ELSE srt

subtitleFormat(format) == IF format = WEBVTT THEN vtt ELSE srt

subtitleHeader(format) ==
    IF subtitleFormat(format) = vtt THEN <<WEBVTT, <<>>>> ELSE <<>>

msIdentifier(format) == IF subtitleFormat(format) = vtt THEN <<".">> ELSE <<",">>

\* the four lines one forEach iteration appends for the record at the
\* 0-based position index
cueLines(step, index, format) ==
    << toString(index + 1),
       replace(step.start, "#", msIdentifier(format)) \o
           <<" ", "-", "-", ">", " ">> \o
           replace(step.end, "#", msIdentifier(format)),
       step.title,
       <<>> >>

\* A plausible slip: the loop without its test of step.end
RECURSIVE forEachCueNoEndTest(_, _, _)
forEachCueNoEndTest(sorted, i, format) ==
    IF i > Len(sorted) THEN <<>>
    ELSE cueLines(sorted[i], i - 1, format) \o forEachCueNoEndTest(sorted, i + 1, format)

\* the forEach loop from position i (1-based here) to the end
RECURSIVE forEachCue(_, _, _)
forEachCue(sorted, i, format) ==
    IF i > Len(sorted) THEN <<>>
    ELSE (IF Len(sorted[i].end) > 0 THEN cueLines(sorted[i], i - 1, format) ELSE <<>>)
         \o forEachCue(sorted, i + 1, format)

renderSubtitle(map, format) ==
    subtitleHeader(format) \o forEachCue(sortByStartedAt(map), 1, format)

\* the ids of the records the loop appended a cue for, in that order
renderedIds(map) ==
    LET kept == SelectSeq(sortByStartedAt(map), LAMBDA r : Len(r.end) > 0)
    IN  [i \in 1..Len(kept) |-> kept[i].id]

subtitlePath(video, format) ==
    pathParseDir(video) \o <<"/">> \o pathParseName(video) \o <<".">> \o
    subtitleFormat(format)

\* ----------------------------------------------------------------- state
VARIABLES
    config,         \* config.format, fixed at plugin construction
    now,            \* what Date.now() returns
    ticks,          \* clock advances so far
    testStartedAt,  \* <<>> while undefined, <<instant>> once set
    steps,          \* the step mapping
    stepId,         \* step.id of every step payload object
    nextUuid,       \* uuids generated so far, plus one
    pending,        \* writeFile calls in flight, with their suspended handler
    nwrites,        \* writeFile calls so far
    fs,             \* the files that writeFile has written: path and content
    subtitle,       \* test.artifacts.subtitle, <<>> while unset
    raised,         \* whether a handler has thrown synchronously
    nrejected,      \* test.after handlers whose promise has rejected
    startedSince,   \* history: the uuids generated since the last test-before
    finishedSince,  \* history: those a step-finished has carried since then
    finishedAt,     \* history: the instant of the last step-finished that found
                    \* the record of an id, <<>> when there was none since then
    fmtIn,          \* formatter harness: the input
    fmtOut,         \* formatter harness: the output, <<>> before the call
    videoIn,        \* path harness: test.artifacts.video
    pathOut,        \* path harness: the subtitle path, <<>> before the call
    titleIn,        \* title harness: actor, name and args of a step
    titleOut        \* title harness: the stored title, <<>> before the call

vars == <<config, now, ticks, testStartedAt, steps, stepId, nextUuid, pending,
          nwrites, fs, subtitle, raised, nrejected, startedSince,
          finishedSince, finishedAt, fmtIn, fmtOut, videoIn, pathOut, titleIn, titleOut>>

history == <<startedSince, finishedSince, finishedAt>>
harness == <<fmtIn, fmtOut, videoIn, pathOut, titleIn, titleOut>>

ClockStart == 5000
Deltas     == {90061001}
Uuids      == 1..MaxUuid

InitPlugin ==
    /\ config \in Formats
    /\ now = ClockStart
    /\ ticks = 0
    /\ testStartedAt = <<>>
    /\ steps = <<>>
    /\ stepId = [p \in StepObjs |-> InitialStepId(p)]
    /\ nextUuid = 1
    /\ pending = <<>>
    /\ nwrites = 0
    /\ fs = {}
    /\ subtitle = [t \in TestObjs |-> <<>>]
    /\ raised = FALSE
    /\ nrejected = 0
    /\ startedSince = {}
    /\ finishedSince = {}
    /\ finishedAt = [u \in Uuids |-> <<>>]

InitHarness ==
    /\ fmtIn = 0
    /\ fmtOut = <<>>
    /\ videoIn = <<>>
    /\ pathOut = <<>>
    /\ titleIn = <<>>
    /\ titleOut = <<>>

Init ==
    /\ InitPlugin
    /\ InitHarness

\* the clock advances between events
Tick ==
    /\ ticks < MaxTicks
    /\ \E d \in Deltas : now' = now + d
    /\ ticks' = ticks + 1
    /\ UNCHANGED <<config, testStartedAt, steps, stepId, nextUuid, pending,
                   nwrites, fs, subtitle, raised, nrejected, history, harness>>

\* A plausible slip: the time base is reset but the step mapping is kept
testBeforeStepsKept(map) == map

\* the value assigned to steps by the test-before handler
testBeforeSteps(map) == <<>>

TestBefore ==
    /\ testStartedAt' = <<now>>
    /\ steps' = testBeforeSteps(steps)
    /\ startedSince' = {}
    /\ finishedSince' = {}
    /\ finishedAt' = [u \in Uuids |-> <<>>]
    /\ UNCHANGED <<config, now, ticks, stepId, nextUuid, pending, nwrites, fs,
                   subtitle, raised, nrejected, harness>>

\* A plausible slip: a payload that already carries an id keeps it
stepStartedIdKept(ids, p, uuid) == IF ids[p] \in Uuids THEN ids[p] ELSE uuid

\* step.id = uuidv4(): whatever the payload carried before
stepStartedId(ids, p, uuid) == uuid

StepStarted(p) ==
    /\ nextUuid <= MaxUuid
    /\ LET stepStartedAt == now
           id            == stepStartedId(stepId, p, nextUuid)
       IN  /\ stepId' = [stepId EXCEPT ![p] = id]
           /\ steps' = ObjectSet(steps, id,
                          [id        |-> id,
                           start     |-> formatElapsed(stepStartedAt, testStartedAt),
                           startedAt |-> stepStartedAt,
                           title     |-> stepTitle(p),
                           end       |-> <<>>])
           /\ startedSince' = startedSince \cup {id}
    /\ nextUuid' = nextUuid + 1
    /\ UNCHANGED <<config, now, ticks, testStartedAt, pending, nwrites, fs,
                   subtitle, raised, nrejected, finishedSince, finishedAt, harness>>

\* A plausible slip: the lookup in the step mapping is left out
stepFinishedGuardNoLookup(map, ids, p) ==
    /\ p # NoStep
    /\ ids[p] # NoId

\* step && step.id && steps[step.id]
stepFinishedGuard(map, ids, p) ==
    /\ p # NoStep
    /\ ids[p] # NoId
    /\ HasKey(map, ids[p])

\* A plausible slip: an end offset that is already set is kept
stepFinishedEndKept(old, new) == IF old = <<>> THEN new ELSE old

\* steps[step.id].end = ...: the assignment replaces whatever was there
stepFinishedEnd(old, new) == new

StepFinished(p) ==
    /\ IF stepFinishedGuard(steps, stepId, p)
       THEN IF HasKey(steps, stepId[p])
            THEN /\ steps' = [steps EXCEPT ![KeyIndex(steps, stepId[p])].end =
                                  stepFinishedEnd(@, formatElapsed(now, testStartedAt))]
                 /\ raised' = raised
            ELSE \* steps[step.id] is undefined: the assignment throws
                 /\ steps' = steps
                 /\ raised' = TRUE
       ELSE /\ steps' = steps
            /\ raised' = raised
    /\ finishedSince' =
           IF p # NoStep /\ stepId[p] \in startedSince
           THEN finishedSince \cup {stepId[p]}
           ELSE finishedSince
    /\ finishedAt' =
           IF stepFinishedGuard(steps, stepId, p) /\ HasKey(steps, stepId[p])
           THEN [finishedAt EXCEPT ![stepId[p]] = <<now>>]
           ELSE finishedAt
    /\ UNCHANGED <<config, now, ticks, testStartedAt, stepId, nextUuid, pending,
                   nwrites, fs, subtitle, nrejected, startedSince, harness>>

\* A plausible slip: the guard only asks for a test object
testAfterGuardNoVideo(t) == t # NoTest

\* test && test.artifacts && test.artifacts.video
testAfterGuard(t) == t # NoTest /\ HasArtifacts(t) /\ HasVideo(t)

\* A plausible slip: the handler empties the step mapping once rendered
testAfterStepsFlushed(map) == <<>>

\* Object.values(steps) is a new array and the sort moves its entries: the
\* step mapping and its records are only read
testAfterSteps(map) == map

\* the handler up to its await: the document and the path are computed and
\* writeFile is called once
TestAfter(t) ==
    /\ IF testAfterGuard(t)
       THEN /\ nwrites < MaxWrites
            /\ pending' = Append(pending,
                   [test    |-> t,
                    path    |-> subtitlePath(IF HasVideo(t) THEN Video(t) ELSE <<>>, config),
                    content |-> renderSubtitle(steps, config),
                    ids     |-> renderedIds(steps)])
            /\ nwrites' = nwrites + 1
            /\ steps' = testAfterSteps(steps)
       ELSE UNCHANGED <<pending, nwrites, steps>>
    /\ UNCHANGED <<config, now, ticks, testStartedAt, stepId, nextUuid, fs,
                   subtitle, raised, nrejected, history, harness>>

RemoveAt(seq, i) == SubSeq(seq, 1, i - 1) \o SubSeq(seq, i + 1, Len(seq))

\* A plausible slip: the document is rendered when the write is carried out
writtenContentLate(call, map, format) == renderSubtitle(map, format)

\* writeFile was handed the string subtitle, a local of the handler
writtenContent(call, map, format) == call.content

\* fs.writeFile replaces the file at the path
writeFile(files, path, content) ==
    {f \in files : f.path # path} \cup {[path |-> path, content |-> content]}

\* writeFile resolves: the file at the path holds the content it was
\* called with, the handler resumes and sets test.artifacts.subtitle
WriteFileResolved(i) ==
    /\ i \in 1..Len(pending)
    /\ fs' = writeFile(fs, pending[i].path, writtenContent(pending[i], steps, config))
    /\ subtitle' = [subtitle EXCEPT ![pending[i].test] = pending[i].path]
    /\ pending' = RemoveAt(pending, i)
    /\ UNCHANGED <<config, now, ticks, testStartedAt, steps, stepId, nextUuid,
                   nwrites, raised, nrejected, history, harness>>

\* A plausible slip: the failure is swallowed and the handler goes on
subtitleAfterRejectionSet(artifacts, call) ==
    [artifacts EXCEPT ![call.test] = call.path]

\* the await throws: the assignment after it is not reached
subtitleAfterRejection(artifacts, call) == artifacts

\* writeFile rejects: the await throws, nothing catches it and the handler's
\* promise rejects; no file is written
WriteFileRejected(i) ==
    /\ i \in 1..Len(pending)
    /\ pending' = RemoveAt(pending, i)
    /\ subtitle' = subtitleAfterRejection(subtitle, pending[i])
    /\ nrejected' = nrejected + 1
    /\ UNCHANGED <<config, now, ticks, testStartedAt, steps, stepId, nextUuid,
                   nwrites, fs, raised, history, harness>>

Next ==
    \/ Tick
    \/ TestBefore
    \/ \E p \in StepObjs : StepStarted(p)
    \/ \E p \in StepObjs \cup {NoStep} : StepFinished(p)
    \/ \E t \in TestObjs \cup {NoTest} : TestAfter(t)
    \/ \E i \in 1..MaxWrites : WriteFileResolved(i)
    \/ \E i \in 1..MaxWrites : WriteFileRejected(i)

Spec == Init /\ [][Next]_vars

\* ----------------------------------------------------- formatter harness
FmtInputs ==
    { h * MsPerHour + mi * MsPerMinute + s * MsPerSecond + ms :
        h \in 0..MaxFmtHours, mi \in {0, 1, 59}, s \in {0, 1, 59}, ms \in {0, 5, 999} }

InitFmt ==
    /\ InitPlugin
    /\ config = <<>>
    /\ fmtIn \in FmtInputs
    /\ fmtOut = <<>>
    /\ videoIn = <<>>
    /\ pathOut = <<>>
    /\ titleIn = <<>>
    /\ titleOut = <<>>

Format ==
    /\ fmtOut = <<>>
    /\ fmtOut' = formatTimestamp(fmtIn)
    /\ UNCHANGED <<config, now, ticks, testStartedAt, steps, stepId, nextUuid,
                   pending, nwrites, fs, subtitle, raised, nrejected,
                   history, fmtIn, videoIn, pathOut, titleIn, titleOut>>

NextFmt == Format

SpecFmt == InitFmt /\ [][NextFmt]_vars

\* ---------------------------------------------------------- path harness
VideoDirs ==
    { <<>>,
      <<"/">>,
      <<"/", "a", "/">>,
      <<"/", "a", "/", "b", "/">>,
      <<"a", "/">>,
      <<"a", "/", "b", ".", "c", "/">>,
      <<".", "/">> }

VideoFiles ==
    { <<"t", ".", "m", "p", "4">>,
      <<"t">>,
      <<".", "m", "p", "4">>,
      <<"t", ".", "u", ".", "m", "p", "4">>,
      <<"t", ".">> }

VideoInputs == { d \o f : d \in VideoDirs, f \in VideoFiles }

InitPath ==
    /\ InitPlugin
    /\ fmtIn = 0
    /\ fmtOut = <<>>
    /\ videoIn \in VideoInputs
    /\ pathOut = <<>>
    /\ titleIn = <<>>
    /\ titleOut = <<>>

DerivePath ==
    /\ pathOut = <<>>
    /\ pathOut' = subtitlePath(videoIn, config)
    /\ UNCHANGED <<config, now, ticks, testStartedAt, steps, stepId, nextUuid,
                   pending, nwrites, fs, subtitle, raised, nrejected,
                   history, fmtIn, fmtOut, videoIn, titleIn, titleOut>>

NextPath == DerivePath

SpecPath == InitPath /\ [][NextPath]_vars

\* --------------------------------------------------------- title harness
\* step.actor, step.name and step.args of a step-started payload: the names
\* are long enough for titles on both sides of the length limit
TitleNames == { Repeat("x", n) : n \in (MaxNameLength - 15)..MaxNameLength }

TitleArgs ==
    { <<FALSE, <<>>>>,
      <<TRUE, <<>>>>,
      <<TRUE, << <<"a">> >> >>,
      <<TRUE, << <<"a">>, <<"b", "#">> >> >> }

TitleInputs == { <<<<"I">>, name, args>> : name \in TitleNames, args \in TitleArgs }

InitTitle ==
    /\ InitPlugin
    /\ config = <<>>
    /\ fmtIn = 0
    /\ fmtOut = <<>>
    /\ videoIn = <<>>
    /\ pathOut = <<>>
    /\ titleIn \in TitleInputs
    /\ titleOut = <<>>

BuildTitle ==
    /\ titleOut = <<>>
    /\ titleOut' = titleOf(titleIn[1], titleIn[2], titleIn[3])
    /\ UNCHANGED <<config, now, ticks, testStartedAt, steps, stepId, nextUuid,
                   pending, nwrites, fs, subtitle, raised, nrejected,
                   history, fmtIn, fmtOut, videoIn, pathOut, titleIn>>

NextTitle == BuildTitle

SpecTitle == InitTitle /\ [][NextTitle]_vars

\* ---------------------------------------------- reading a document back
\* the lines of a document after its optional WEBVTT header
DocBody(doc) ==
    IF Len(doc) >= 2 /\ doc[1] = WEBVTT THEN SubSeq(doc, 3, Len(doc)) ELSE doc

\* the cues of a document: groups of four lines
DocCues(doc) ==
    LET body == DocBody(doc)
    IN  [i \in 1..(Len(body) \div 4) |->
            [number |-> body[4 * i - 3],
             timing |-> body[4 * i - 2],
             title  |-> body[4 * i - 1],
             blank  |-> body[4 * i]]]

\* the two timestamps of a timing line "start --> end"
TimingStart(line) ==
    LET i == IndexOf(line, " ")
    IN  IF i = 0 THEN line ELSE SubSeq(line, 1, i - 1)

TimingEnd(line) == SubSeq(line, LastIndexOf(line, " ") + 1, Len(line))

\* the separator characters that occur in a timestamp
Separators(ts) == SelectSeq(ts, LAMBDA c : c \in {",", ".", "#"})

PositionOf(seq, x) == CHOOSE i \in 1..Len(seq) : seq[i] = x

InSeq(seq, x) == \E i \in 1..Len(seq) : seq[i] = x

\* a step in which a test-after handler reached writeFile, and the
\* writeFile call it added
RenderStep == Len(pending') = Len(pending) + 1

NewRender == pending'[Len(pending')]

\* the records of a step mapping that have an end offset
EndedRecords(map) == {i \in 1..Len(map) : Len(map[i].end) > 0}

\* a cue shows the start and end offsets and the title of a record
CueShows(cue, record) ==
    /\ TimingStart(cue.timing) \in
           {replace(record.start, "#", <<",">>), replace(record.start, "#", <<".">>)}
    /\ TimingEnd(cue.timing) \in
           {replace(record.end, "#", <<",">>), replace(record.end, "#", <<".">>)}
    /\ cue.title = record.title

\* the document of a render has one cue per rendered id, in order, each
\* showing the record of that id in the step mapping
CuesMatchIds(render, map) ==
    LET cues == DocCues(render.content)
    IN  /\ Len(DocBody(render.content)) = 4 * Len(render.ids)
        /\ \A k \in 1..Len(render.ids) :
               /\ HasKey(map, render.ids[k])
               /\ CueShows(cues[k], map[KeyIndex(map, render.ids[k])])

\* ----------------------------------------------------------------- claims

\* C1: in every rendered subtitle the cues are numbered 1, 2, ..., k, where
\* k is the number of recorded steps that have an end offset: an unfinished
\* step leaves no gap in the numbering.
C1_CueNumbersConsecutive ==
    [][RenderStep =>
           LET cues == DocCues(NewRender.content)
           IN  /\ Len(cues) = Cardinality(EndedRecords(steps))
               /\ \A k \in 1..Len(cues) : cues[k].number = toString(k)]_vars

\* C2: two steps of the current test that started at instants t1 < t2 and
\* both finished have their cues in that order in the rendered subtitle,
\* in whatever order their step-finished events arrived.
C2_StartOrderKept ==
    [][RenderStep =>
           /\ CuesMatchIds(NewRender, steps)
           /\ \A i, j \in EndedRecords(steps) :
                  steps[i].startedAt < steps[j].startedAt =>
                      /\ InSeq(NewRender.ids, steps[i].id)
                      /\ InSeq(NewRender.ids, steps[j].id)
                      /\ PositionOf(NewRender.ids, steps[i].id) <
                             PositionOf(NewRender.ids, steps[j].id)]_vars

\* C2 witness: a document was rendered with two cues, for two steps that
\* started at different instants of a test
C2_Witness ==
    \E w \in 1..Len(pending) :
        /\ Len(pending[w].ids) = 2
        /\ Len(DocCues(pending[w].content)) = 2
        /\ TimingStart(DocCues(pending[w].content)[1].timing) #
               TimingStart(DocCues(pending[w].content)[2].timing)

\* C3: a subtitle rendered at a test-after event has cues only for steps
\* whose step-started event came after the most recent test-before.
C3_NoCarryOver ==
    [][RenderStep =>
           /\ CuesMatchIds(NewRender, steps)
           /\ \A k \in 1..Len(NewRender.ids) : NewRender.ids[k] \in startedSince
           /\ \A i \in 1..Len(steps) : steps[i].id \in startedSince]_vars

\* C3 witness: a document with a cue was rendered after a test-before that
\* followed the steps of an earlier test
C3_Witness ==
    /\ testStartedAt # <<>>
    /\ nextUuid - 1 > Cardinality(startedSince)
    /\ \E w \in 1..Len(pending) :
           /\ Len(pending[w].ids) >= 1
           /\ \A k \in 1..Len(pending[w].ids) : pending[w].ids[k] \in startedSince

\* the step-finished payload p finds a record in the step mapping
Correlates(p) == p # NoStep /\ stepId[p] # NoId /\ HasKey(steps, stepId[p])

\* C4: a step-finished event whose payload is missing, has no id, or
\* carries an id that is not a key of the current step mapping raises no
\* error and leaves the step mapping and the time base unchanged.
C4_UnknownFinishIsNoOp ==
    [][\A p \in StepObjs \cup {NoStep} :
           (~Correlates(p) /\ StepFinished(p)) =>
               /\ steps' = steps
               /\ testStartedAt' = testStartedAt
               /\ raised' = FALSE]_vars

\* C4 witness: records are in the step mapping while a payload carries an
\* id assigned in an earlier test and cleared by a later test-before
C4_Witness ==
    /\ testStartedAt # <<>>
    /\ Len(steps) >= 1
    /\ \E p \in StepObjs : stepId[p] \in Uuids /\ ~HasKey(steps, stepId[p])

\* C5: a step appears as a cue if and only if both its step-started and a
\* matching step-finished were observed since the most recent test-before;
\* a step with a start but no end is never rendered as an unterminated cue.
C5_CueIffStartedAndFinished ==
    [][RenderStep =>
           /\ CuesMatchIds(NewRender, steps)
           /\ {NewRender.ids[k] : k \in 1..Len(NewRender.ids)} =
                  startedSince \cap finishedSince
           /\ \A k \in 1..Len(DocCues(NewRender.content)) :
                  Len(TimingEnd(DocCues(NewRender.content)[k].timing)) > 0]_vars

\* C5 witness: a document with a cue was rendered while a step of the same
\* test that had started earlier has never finished
C5_Witness ==
    \E w \in 1..Len(pending) :
        /\ Len(pending[w].ids) >= 1
        /\ \A k \in 1..Len(pending[w].ids) : pending[w].ids[k] \in startedSince
        /\ \E u \in startedSince \ finishedSince :
               u < pending[w].ids[Len(pending[w].ids)]

\* C6: a test-after event whose payload is missing, has no artifact map or
\* has no video entry writes no file, leaves artifacts.subtitle unset and
\* leaves the step mapping and the time base unchanged.
C6_NoVideoIsNoOp ==
    [][\A t \in TestObjs \cup {NoTest} :
           (~HasVideo(t) /\ TestAfter(t)) =>
               /\ pending' = pending
               /\ nwrites' = nwrites
               /\ fs' = fs
               /\ subtitle' = subtitle
               /\ (t # NoTest => subtitle'[t] = <<>>)
               /\ steps' = steps
               /\ testStartedAt' = testStartedAt]_vars

\* C6 witness: finished steps are recorded, nothing has been written and
\* no artifacts.subtitle is set
C6_Witness ==
    /\ EndedRecords(steps) # {}
    /\ nwrites = 0
    /\ fs = {}
    /\ \A t \in TestObjs : subtitle[t] = <<>>

\* the reference decomposition of C7
ReferenceFormat(m) ==
    padStart(NatToString(m \div MsPerHour), 2) \o <<":">> \o
    padStart(NatToString((m \div MsPerMinute) % 60), 2) \o <<":">> \o
    padStart(NatToString((m \div MsPerSecond) % 60), 2) \o <<"#">> \o
    padStart(NatToString(m % MsPerSecond), 3)

\* C7: for every non-negative m, also 24 hours or more, formatTimestamp(m)
\* is the reference decomposition: the hour field is m div 3600000 (not
\* modulo 24) and the millisecond field is m mod 1000 in three digits.
C7_ReferenceDecomposition ==
    fmtOut # <<>> => fmtOut = ReferenceFormat(fmtIn)

\* C8: for every non-negative m, parsing formatTimestamp(m) as
\* hours:minutes:seconds#milliseconds and recombining yields m.
C8_RoundTrip ==
    fmtOut # <<>> => parseTimestamp(fmtOut) = fmtIn

\* C8 witness: an input of 24 hours or more has been formatted
C8_Witness ==
    /\ fmtOut # <<>>
    /\ fmtIn >= HoursPerDay * MsPerHour + 1

\* what a path denotes: whether it is absolute, the directories it names
\* and the file name at its end
PathComponents(path) ==
    SelectSeq(SplitFields(path, {"/"}), LAMBDA c : Len(c) > 0)

IsAbsolute(path) == Len(path) > 0 /\ path[1] = "/"

Directory(path) ==
    LET c == PathComponents(path)
    IN  <<IsAbsolute(path), SubSeq(c, 1, Len(c) - 1)>>

FileName(path) ==
    LET c == PathComponents(path)
    IN  IF Len(c) = 0 THEN <<>> ELSE c[Len(c)]

Stem(file) ==
    LET d == LastIndexOf(file, ".")
    IN  IF d <= 1 THEN file ELSE SubSeq(file, 1, d - 1)

Extension(file) ==
    LET d == LastIndexOf(file, ".")
    IN  IF d <= 1 THEN <<>> ELSE SubSeq(file, d + 1, Len(file))

NextToVideo(path, video) ==
    /\ Directory(path) = Directory(video)
    /\ Stem(FileName(path)) = Stem(FileName(video))
    /\ Extension(FileName(path)) \in {srt, vtt}

\* C9: the subtitle of a test-after event with a video path is written in
\* the directory of the video, named after the video's base name with the
\* extension srt or vtt; also for a video path with no directory component.
C9_SubtitleNextToVideo ==
    pathOut # <<>> => NextToVideo(pathOut, videoIn)

\* the grammar C10 states for a document and its path
GrammarOf(doc, path) ==
    LET cues == DocCues(doc)
        sep  == IF config = WEBVTT THEN <<".">> ELSE <<",">>
    IN  /\ IF config = WEBVTT
           THEN /\ Len(doc) >= 2
                /\ doc[1] = WEBVTT
                /\ doc[2] = <<>>
                /\ Extension(FileName(path)) = vtt
           ELSE /\ (Len(doc) = 0 \/ doc[1] # WEBVTT)
                /\ Extension(FileName(path)) = srt
        /\ \A k \in 1..Len(cues) :
               /\ Separators(TimingStart(cues[k].timing)) = sep
               /\ Separators(TimingEnd(cues[k].timing)) = sep

\* C10: the grammar depends only on whether config.format is exactly
\* 'WEBVTT': then the document starts with WEBVTT and a blank line, every
\* timestamp has '.' before the milliseconds and the extension is vtt; for
\* every other value there is no header, ',' is used and the extension is
\* srt.  '#' never appears in a rendered timestamp.
C10_GrammarByExactFormat ==
    /\ \A i \in 1..Len(pending) : GrammarOf(pending[i].content, pending[i].path)
    /\ \A f \in fs :
           Extension(FileName(f.path)) = IF config = WEBVTT THEN vtt ELSE srt

\* C10 witness: a document with a cue was rendered under a format that
\* differs from 'WEBVTT' only in case
C10_Witness ==
    /\ config = <<"w", "e", "b", "v", "t", "t">>
    /\ \E w \in 1..Len(pending) : Len(DocCues(pending[w].content)) >= 1

\* C11: when the write of a subtitle file fails, the handler's promise
\* rejects, no further writeFile call is made for it, no file appears and
\* artifacts.subtitle is left as it was; artifacts.subtitle only ever
\* takes a value when a write to that very path has completed.
C11_FailedWriteSetsNothing ==
    [][/\ \A i \in 1..Len(pending) :
              WriteFileRejected(i) =>
                  /\ nrejected' = nrejected + 1
                  /\ subtitle' = subtitle
                  /\ fs' = fs
                  /\ nwrites' = nwrites
                  /\ Len(pending') = Len(pending) - 1
       /\ \A t \in TestObjs :
              subtitle'[t] # subtitle[t] =>
                  /\ nrejected' = nrejected
                  /\ \E f \in fs' : f.path = subtitle'[t]]_vars

\* C11 witness: the only write of a run has failed; no file exists and no
\* artifacts.subtitle is set
C11_Witness ==
    /\ nrejected = 1
    /\ nwrites = 1
    /\ pending = <<>>
    /\ fs = {}
    /\ \A t \in TestObjs : subtitle[t] = <<>>

\* C12: a test-after event only reads the session state: the step mapping,
\* its records, the payload ids and the time base are the same after it as
\* before, so the document it hands to writeFile is the document a second
\* test-after with the same video path would render right after it.  (A
\* test-after without a video changes nothing at all: C6.)
C12_TestAfterOnlyReads ==
    [][RenderStep =>
           /\ TestAfter(NewRender.test)
           /\ steps' = steps
           /\ testStartedAt' = testStartedAt
           /\ stepId' = stepId
           /\ NewRender.content = renderSubtitle(steps', config')
           /\ NewRender.path = subtitlePath(Video(NewRender.test), config')]_vars

\* C12 witness: a document with a cue has been rendered and the step
\* mapping still renders to that same document
C12_Witness ==
    \E w \in 1..Len(pending) :
        /\ Len(pending[w].ids) >= 1
        /\ EndedRecords(steps) # {}
        /\ pending[w].content = renderSubtitle(steps, config)

\* the ids generated so far
GeneratedIds == 1..(nextUuid - 1)

\* C13: every step-started event generates an id that differs from every id
\* generated before, stores it on the payload and adds exactly one record
\* under it, with start, startedAt and title set; every record that was
\* there stays as it was, also when the payload already carried an id.
C13_StartAddsOneFreshRecord ==
    [][\A p \in StepObjs :
           StepStarted(p) =>
               /\ stepId'[p] \notin GeneratedIds
               /\ ~HasKey(steps, stepId'[p])
               /\ \A q \in StepObjs \ {p} : stepId'[q] = stepId[q]
               /\ Len(steps') = Len(steps) + 1
               /\ \A i \in 1..Len(steps) : steps'[i] = steps[i]
               /\ steps'[Len(steps')].id = stepId'[p]
               /\ steps'[Len(steps')].startedAt = now
               /\ Len(steps'[Len(steps')].start) > 0
               /\ steps'[Len(steps')].title = stepTitle(p)
               /\ steps'[Len(steps')].end = <<>>]_vars

\* C13 witness: a payload was started twice; the record of its first start
\* is still in the mapping, under an id no payload carries any more
C13_Witness ==
    /\ Len(steps) = 2
    /\ \E i \in 1..Len(steps) : \A p \in StepObjs : stepId[p] # steps[i].id
    /\ \E p \in StepObjs : stepId[p] = steps[2].id

\* the text of the arguments of a step: the arguments separated by commas,
\* nothing when the step has none
ArgsText(args) ==
    IF ~args[1] \/ Len(args[2]) = 0
    THEN <<>>
    ELSE LET RECURSIVE Commas(_)
             Commas(k) == IF k = 1 THEN args[2][1]
                          ELSE Commas(k - 1) \o <<",">> \o args[2][k]
         IN  Commas(Len(args[2]))

\* the untruncated title of a step
FullTitle(in) == in[1] \o <<".">> \o in[2] \o <<"(">> \o ArgsText(in[3]) \o <<")">>

\* C14: the title of a step is actor.name(args), the arguments joined by
\* commas and empty when the step has none.  A title of more than 100
\* characters is stored as its first 100 characters followed by '...'; a
\* title of 100 characters or fewer is stored as it is.  No stored title
\* has more than 103 characters.
C14_TitleTruncatedAt100 ==
    titleOut # <<>> =>
        LET full == FullTitle(titleIn)
        IN  /\ Len(full) <= 100 => titleOut = full
            /\ Len(full) > 100 =>
                   /\ Len(titleOut) = 103
                   /\ SubSeq(titleOut, 1, 100) = SubSeq(full, 1, 100)
                   /\ SubSeq(titleOut, 101, 103) = <<".", ".", ".">>
            /\ Len(titleOut) <= 103

\* C14 witness: a title of more than 100 characters, with two arguments,
\* has been stored
C14_Witness ==
    /\ titleOut # <<>>
    /\ titleIn[3][1]
    /\ Len(titleIn[3][2]) = 2
    /\ Len(FullTitle(titleIn)) > 100
    /\ Len(titleOut) = 103

\* C14, at the limit: a title of exactly 100 characters is stored unchanged
C14_WitnessAtLimit ==
    /\ titleOut # <<>>
    /\ Len(FullTitle(titleIn)) = 100
    /\ Len(titleOut) = 100

\* C15: finished steps that have the same raw start instant have their
\* cues in the order in which their step-started events were processed,
\* which is the order of their records in the step mapping.
C15_TiesInArrivalOrder ==
    [][RenderStep =>
           \A i, j \in EndedRecords(steps) :
               (i < j /\ steps[i].startedAt = steps[j].startedAt) =>
                   /\ InSeq(NewRender.ids, steps[i].id)
                   /\ InSeq(NewRender.ids, steps[j].id)
                   /\ PositionOf(NewRender.ids, steps[i].id) <
                          PositionOf(NewRender.ids, steps[j].id)]_vars

\* C15 witness: a document was rendered with the cues of two steps that
\* started at the same instant, the one started first coming first
C15_Witness ==
    \E w \in 1..Len(pending) :
        /\ pending[w].ids = <<1, 2>>
        /\ Len(DocCues(pending[w].content)) = 2
        /\ HasKey(steps, 1)
        /\ HasKey(steps, 2)
        /\ KeyIndex(steps, 1) < KeyIndex(steps, 2)
        /\ steps[KeyIndex(steps, 1)].startedAt = steps[KeyIndex(steps, 2)].startedAt

\* C16: the document, its path and the value of artifacts.subtitle are
\* fixed when the test-after event is handled.  While the write is pending,
\* the test-before, step-started and step-finished events of the next test
\* change none of them: a step that completes no write leaves every pending
\* write as it is, and a completed write either fails or leaves the file
\* with the document that was rendered, with no step of the next test, and
\* artifacts.subtitle with the path that was computed.
C16_PendingWriteIsFixed ==
    [][/\ Len(pending') >= Len(pending) =>
              \A i \in 1..Len(pending) : pending'[i] = pending[i]
       /\ Len(pending') < Len(pending) =>
              \E i \in 1..Len(pending) :
                  /\ pending' = RemoveAt(pending, i)
                  /\ \/ fs' = fs /\ subtitle' = subtitle
                     \/ /\ [path    |-> pending[i].path,
                             content |-> pending[i].content] \in fs'
                        /\ subtitle'[pending[i].test] = pending[i].path
                        /\ Len(DocCues(pending[i].content)) = Len(pending[i].ids)]_vars

\* C16 witness: a write of a document with a cue is pending while the next
\* test has begun and one of its steps has started and finished
C16_Witness ==
    \E w \in 1..Len(pending) :
        /\ Len(pending[w].ids) >= 1
        /\ \A k \in 1..Len(pending[w].ids) : pending[w].ids[k] \notin startedSince
        /\ \E i \in EndedRecords(steps) :
               /\ steps[i].id \in startedSince
               /\ ~InSeq(pending[w].ids, steps[i].id)
        /\ pending[w].content # renderSubtitle(steps, config)

\* C17: the start and the end offset of a record are computed against the
\* same time base: both are offsets from the test start instant that is
\* current while the record is in the step mapping.
C17_OneTimeBasePerRecord ==
    \A i \in 1..Len(steps) :
        /\ steps[i].start = formatElapsed(steps[i].startedAt, testStartedAt)
        /\ steps[i].end # <<>> =>
               /\ finishedAt[steps[i].id] # <<>>
               /\ steps[i].end =
                      formatElapsed(finishedAt[steps[i].id][1], testStartedAt)

\* C17 witness: in a second test, begun after the clock advanced, a step
\* has started and finished
C17_Witness ==
    /\ testStartedAt # <<>>
    /\ testStartedAt[1] > ClockStart
    /\ Len(steps) = 1
    /\ steps[1].id = 2
    /\ steps[1].startedAt = testStartedAt[1]
    /\ steps[1].end = formatTimestamp(0)

\* the milliseconds of a rendered timestamp, whatever its separator
CueOffset(ts) ==
    parseTimestamp(replace(replace(ts, ",", <<"#">>), ".", <<"#">>))

\* C18: the clock never going back, every record made after a test-before
\* holds as start the formatted offset of an instant that is not before
\* the test start, so an offset of at least 0 ms; and once finished it
\* holds as end the formatted offset of an instant that is not before the
\* step's start, so an end offset that is not smaller than its start
\* offset.  No cue rendered from such a record ends before it starts.
C18_OffsetsOrdered ==
    testStartedAt # <<>> =>
        \A i \in 1..Len(steps) :
            LET startOffset == steps[i].startedAt - testStartedAt[1]
            IN  /\ startOffset >= 0
                /\ steps[i].start = formatTimestamp(startOffset)
                /\ steps[i].end # <<>> =>
                       /\ finishedAt[steps[i].id] # <<>>
                       /\ finishedAt[steps[i].id][1] - testStartedAt[1] >= startOffset
                       /\ steps[i].end =
                              formatTimestamp(finishedAt[steps[i].id][1] - testStartedAt[1])

\* C18 witness: a cue has been rendered for a step that started after the
\* clock advanced in its test and finished at that same instant or later
C18_Witness ==
    /\ testStartedAt # <<>>
    /\ \E w \in 1..Len(pending) :
           \E k \in 1..Len(DocCues(pending[w].content)) :
               LET timing == DocCues(pending[w].content)[k].timing
               IN  /\ TimingStart(timing)[1] # "N"
                   /\ CueOffset(TimingEnd(timing)) > 0
                   /\ CueOffset(TimingEnd(timing)) >= CueOffset(TimingStart(timing))
    /\ \E i \in EndedRecords(steps) :
           parseTimestamp(steps[i].end) > parseTimestamp(steps[i].start)

\* C19: a step-finished event whose id is a key of the step mapping sets
\* the end offset of that record to the offset of this event, whether or
\* not the record already had one, and changes nothing else: the record's
\* start, startedAt and title, every other record, the time base and the
\* payload ids stay as they were.  The last step-finished of an id wins.
\* (A step-finished at the very instant of the previous one of that id
\* computes the same end offset again.)
C19_FinishSetsOnlyEnd ==
    [][\A p \in StepObjs :
           (Correlates(p) /\ finishedAt' # finishedAt /\ StepFinished(p)) =>
               LET k == KeyIndex(steps, stepId[p])
               IN  /\ Len(steps') = Len(steps)
                   /\ \A i \in 1..Len(steps) : i # k => steps'[i] = steps[i]
                   /\ steps'[k].id = steps[k].id
                   /\ steps'[k].start = steps[k].start
                   /\ steps'[k].startedAt = steps[k].startedAt
                   /\ steps'[k].title = steps[k].title
                   /\ steps'[k].end = formatElapsed(now, testStartedAt)
                   /\ testStartedAt' = testStartedAt
                   /\ stepId' = stepId
                   /\ raised' = raised]_vars

\* C19 witness: a step was finished, rendered, and finished again later:
\* its record has another end offset than the cue rendered for it
C19_Witness ==
    \E w \in 1..Len(pending) :
        \E k \in 1..Len(pending[w].ids) :
            /\ HasKey(steps, pending[w].ids[k])
            /\ LET record == steps[KeyIndex(steps, pending[w].ids[k])]
                   cue    == DocCues(pending[w].content)[k]
               IN  /\ record.end # <<>>
                   /\ record.end # formatTimestampNaN
                   /\ cue.title = record.title
                   /\ ~CueShows(cue, record)

====
